---- MODULE Spec2Model ----
(***************************************************************************)
(* Model of NewsletterSender (src/main.py): the pre-flight connection      *)
(* test, the results file, the main SMTP session, the per-recipient send   *)
(* loop with its bounded reconnect-and-retry, and the rate limiter.        *)
(*                                                                         *)
(* The SMTP server, the clock and the file system are the environment:     *)
(* every connect, login and send draws its outcome nondeterministically,   *)
(* a send attempt that succeeds or is rejected takes 0..MaxElapse seconds  *)
(* and time.sleep(x) advances the clock by x seconds.  The time a          *)
(* disconnected attempt takes is not modelled: it is followed by an abort  *)
(* or by the ReconnectDelay sleep, which alone exceeds every configured    *)
(* delay, so no later clock comparison depends on it.                      *)
(***************************************************************************)
EXTENDS Integers, Sequences, FiniteSets, TLC

\* ---------------------------------------------------------------- bounds
MaxRecipients == 3
MaxBatch == 2
MaxBatchDelay == 1
MaxDelay == 1
MaxElapse == 1
\* time.time() when the run starts; far larger than any configured delay
StartTime == 10

\* ------------------------------------------------------ program constants
\* variant: one attempt too many
retries_four == 3 + 1
\* retries = 3 (line 126)
retries == 3
\* time.sleep(5) before a reconnect (line 160)
ReconnectDelay == 5

\* ------------------------------------------------------------ input sets
\* the email fields of recipients.csv: lists of 0..MaxRecipients rows; the
\* addresses repeat, a list may name an address twice
EmailPool == <<"a@x.com", "b@x.com">>
EmailOf(i) == EmailPool[((i - 1) % Len(EmailPool)) + 1]
RecipientLists == { [i \in 1..n |-> EmailOf(i)] : n \in 0..MaxRecipients }
Configs ==
  [emails_per_batch : 1..MaxBatch,
   batch_delay : 0..MaxBatchDelay,
   delay_between_emails : 0..MaxDelay]
\* str(e) of the non-disconnection errors the transport raises
ErrorTexts == {"mailbox unavailable"}

VARIABLES
  pc,             \* position in send_newsletters
  config,         \* self.config['rate_limit']
  recipients,     \* recipients (line 101)
  sent_count,     \* self.sent_count
  last_send_time, \* self.last_send_time
  now,            \* time.time()
  index,          \* index of the for loop (line 124), 0 before the loop
  attempt,        \* attempt of the inner for loop (line 127)
  fileState,      \* results file: "none", "open", "closed"
  results,        \* rows written to the results file, header first
  sessions,       \* every SMTP_SSL object created, in creation order
  server,         \* the session the name `server` is bound to (0: none)
  ctx,            \* the session the with statement of line 120 manages
  abortCause,     \* why the run aborted ("none" while it has not)
  stats,          \* per recipient: what happened to it so far
  okSincePause,   \* successful sends since the last batch pause
  lastPause       \* what the latest _rate_limit call did

vars == <<pc, config, recipients, sent_count, last_send_time, now, index,
          attempt, fileState, results, sessions, server, ctx, abortCause,
          stats, okSincePause, lastPause>>

N == Len(recipients)

\* ---------------------------------------------------------------- helpers
\* writer.writerow(['email', 'status', 'error_message']) (line 116)
HeaderRow == <<"email", "status", "error_message">>
\* [recipient['email'], 'success', ''] (line 151)
SuccessRow(email) == <<email, "success", "">>
\* variant: the failed row loses the error text
FailedRow_noMsg(email, error_msg) == <<email, "failed", "">>
\* [recipient['email'], 'failed', error_msg] (line 171)
FailedRow(email, error_msg) == <<email, "failed", error_msg>>
\* writer.writerow(row): appends one row to the file
writerow(f, row) == Append(f, row)
\* the outcome rows: the file without its header
Outcomes == IF results = <<>> THEN <<>> ELSE Tail(results)

\* smtplib.SMTP_SSL(host, port): a new connected session
NewSession(ss) == Append(ss, "live")
\* SMTP.__exit__ / SMTP.close() on session s
CloseSession(ss, s) ==
  IF s = 0 THEN ss ELSE [ss EXCEPT ![s] = "closed"]
\* smtplib closes the socket itself before raising SMTPServerDisconnected
DropSession(ss, s) == [ss EXCEPT ![s] = "dropped"]
\* leaving `with open(results_file, 'w')` (line 114)
CloseFile(fs) == IF fs = "open" THEN "closed" ELSE fs

\* bookkeeping of the run's history, per recipient:
\*   sends: send attempts, oks: successful sends, errors: attempts that
\*   raised a non-disconnection error (errText: its text), drops: attempts
\*   that raised SMTPServerDisconnected, reconnects: completed reconnects,
\*   checks: _rate_limit calls, pauses: batch pauses
Bump(st, i, field) == [st EXCEPT ![i][field] = @ + 1]

\* variant: the batch test is off by one
BatchLimitReached_gt(sc, cfg) == sc > cfg.emails_per_batch
\* _rate_limit, line 55
BatchLimitReached(sc, cfg) == sc >= cfg.emails_per_batch
\* the batch countdown (lines 59-61): batch_delay sleeps of one second
BatchSleep(cfg) == cfg.batch_delay
\* variant: the else branch never waits
ShortWait_none(t, last, cfg) == 0
\* _rate_limit, lines 66-71: the wait of the else branch
ShortWait(t, last, cfg) ==
  IF t - last < cfg.delay_between_emails
  THEN cfg.delay_between_emails - (t - last)
  ELSE 0
\* time.sleep(x): the clock value it returns at
Sleep(t, x) == t + x
\* attempt < retries - 1 (line 158)
AttemptsRemain(a) == a < retries - 1

\* ------------------------------------------------------------------- Init
\* __init__ (lines 24-29) and the inputs of the run
Init ==
  /\ pc = "start"
  /\ config \in Configs
  /\ recipients \in RecipientLists
  /\ sent_count = 0
  /\ last_send_time = 0
  /\ now = StartTime
  /\ index = 0
  /\ attempt = 0
  /\ fileState = "none"
  /\ results = <<>>
  /\ sessions = <<>>
  /\ server = 0
  /\ ctx = 0
  /\ abortCause = "none"
  /\ stats = [i \in 1..Len(recipients) |->
               [sends |-> 0, oks |-> 0, errors |-> 0, errText |-> "",
                drops |-> 0, reconnects |-> 0, checks |-> 0, pauses |-> 0]]
  /\ okSincePause = 0
  /\ lastPause = [kind |-> "none", waited |-> 0]

\* variant: the results file is not closed when the run aborts
Fatal_leaveOpen(cause, ss) ==
  /\ pc' = "aborted"
  /\ abortCause' = cause
  /\ sessions' = CloseSession(ss, ctx)
  /\ UNCHANGED fileState

\* the exception leaves send_newsletters: the with statements are left
\* (lines 114, 120), the outer handler logs and re-raises (lines 176-179)
Fatal(cause, ss) ==
  /\ pc' = "aborted"
  /\ abortCause' = cause
  /\ sessions' = CloseSession(ss, ctx)
  /\ fileState' = CloseFile(fileState)

\* ------------------------------------------------------------- pre-flight
\* _test_smtp_connection, line 78: SMTP_SSL(...)
TestConnect ==
  /\ pc = "start"
  /\ \E ok \in BOOLEAN :
       IF ok
       THEN /\ sessions' = NewSession(sessions)
            /\ pc' = "test_login"
            /\ UNCHANGED abortCause
       ELSE /\ pc' = "aborted"
            /\ abortCause' = "preflight"
            /\ UNCHANGED sessions
  /\ UNCHANGED <<config, recipients, sent_count, last_send_time, now, index,
                 attempt, fileState, results, server, ctx, stats,
                 okSincePause, lastPause>>

\* variant: a failed login is logged but not re-raised
TestLogin_swallow ==
  /\ pc = "test_login"
  /\ sessions' = CloseSession(sessions, Len(sessions))
  /\ \E ok \in BOOLEAN :
       IF ok
       THEN pc' = "open_results" /\ UNCHANGED abortCause
       ELSE pc' = "open_results" /\ abortCause' = "preflight"
  /\ UNCHANGED <<config, recipients, sent_count, last_send_time, now, index,
                 attempt, fileState, results, server, ctx, stats,
                 okSincePause, lastPause>>

\* variant: the pre-flight session is not closed
TestLogin_noClose ==
  /\ pc = "test_login"
  /\ \E ok \in BOOLEAN :
       IF ok
       THEN pc' = "open_results" /\ UNCHANGED abortCause
       ELSE pc' = "aborted" /\ abortCause' = "preflight"
  /\ UNCHANGED <<config, recipients, sent_count, last_send_time, now, index,
                 attempt, fileState, results, sessions, server, ctx, stats,
                 okSincePause, lastPause>>

\* _test_smtp_connection, lines 79-88: login, then the with block is left
TestLogin ==
  /\ pc = "test_login"
  /\ sessions' = CloseSession(sessions, Len(sessions))
  /\ \E ok \in BOOLEAN :
       IF ok
       THEN pc' = "open_results" /\ UNCHANGED abortCause
       ELSE pc' = "aborted" /\ abortCause' = "preflight"
  /\ UNCHANGED <<config, recipients, sent_count, last_send_time, now, index,
                 attempt, fileState, results, server, ctx, stats,
                 okSincePause, lastPause>>

\* lines 114-116: the results file is created and the header written
OpenResults ==
  /\ pc = "open_results"
  /\ fileState' = "open"
  /\ results' = writerow(<<>>, HeaderRow)
  /\ pc' = "connect"
  /\ UNCHANGED <<config, recipients, sent_count, last_send_time, now, index,
                 attempt, sessions, server, ctx, abortCause, stats,
                 okSincePause, lastPause>>

\* line 120: with smtplib.SMTP_SSL(...) as server
Connect ==
  /\ pc = "connect"
  /\ \E ok \in BOOLEAN :
       IF ok
       THEN /\ sessions' = NewSession(sessions)
            /\ server' = Len(sessions) + 1
            /\ ctx' = Len(sessions) + 1
            /\ pc' = "login"
            /\ UNCHANGED <<abortCause, fileState>>
       ELSE /\ Fatal("session", sessions)
            /\ UNCHANGED <<server, ctx>>
  /\ UNCHANGED <<config, recipients, sent_count, last_send_time, now, index,
                 attempt, results, stats, okSincePause, lastPause>>

\* line 121: server.login(...)
Login ==
  /\ pc = "login"
  /\ \E ok \in BOOLEAN :
       IF ok
       THEN /\ pc' = "for"
            /\ UNCHANGED <<abortCause, fileState, sessions>>
       ELSE Fatal("session", sessions)
  /\ UNCHANGED <<config, recipients, sent_count, last_send_time, now, index,
                 attempt, results, server, ctx, stats, okSincePause,
                 lastPause>>

\* ------------------------------------------------------------- the loop
\* variant: a new session is opened for every recipient
NextRecipient_connect ==
  /\ pc = "for"
  /\ index < N
  /\ index' = index + 1
  /\ attempt' = 0
  /\ sessions' = NewSession(CloseSession(sessions, server))
  /\ server' = Len(sessions) + 1
  /\ pc' = "rate_limit"
  /\ UNCHANGED <<config, recipients, sent_count, last_send_time, now,
                 fileState, results, ctx, abortCause, stats, okSincePause,
                 lastPause>>

\* line 124: the next recipient, with a fresh attempt counter (line 127)
NextRecipient ==
  /\ pc = "for"
  /\ index < N
  /\ index' = index + 1
  /\ attempt' = 0
  /\ pc' = "rate_limit"
  /\ UNCHANGED <<config, recipients, sent_count, last_send_time, now,
                 fileState, results, sessions, server, ctx, abortCause,
                 stats, okSincePause, lastPause>>

\* lines 173-174: the loop is over, both with blocks are left
Complete ==
  /\ pc = "for"
  /\ index = N
  /\ sessions' = CloseSession(sessions, ctx)
  /\ fileState' = CloseFile(fileState)
  /\ pc' = "done"
  /\ UNCHANGED <<config, recipients, sent_count, last_send_time, now, index,
                 attempt, results, server, ctx, abortCause, stats,
                 okSincePause, lastPause>>

\* variant: the batch pause does not reset the counter
RateLimit_noReset ==
  /\ pc = "rate_limit"
  /\ IF BatchLimitReached(sent_count, config)
     THEN /\ now' = Sleep(now, BatchSleep(config))
          /\ okSincePause' = 0
          /\ lastPause' = [kind |-> "batch", waited |-> now' - now]
          /\ stats' = Bump(Bump(stats, index, "checks"), index, "pauses")
          /\ UNCHANGED sent_count
     ELSE /\ IF ShortWait(now, last_send_time, config) > 0
             THEN /\ now' = Sleep(now, ShortWait(now, last_send_time, config))
                  /\ lastPause' = [kind |-> "short", waited |-> now' - now]
             ELSE /\ now' = now
                  /\ lastPause' = [kind |-> "none", waited |-> 0]
          /\ stats' = Bump(stats, index, "checks")
          /\ UNCHANGED <<sent_count, okSincePause>>
  /\ pc' = "send"
  /\ UNCHANGED <<config, recipients, last_send_time, index, attempt,
                 fileState, results, sessions, server, ctx, abortCause>>

\* _rate_limit (lines 53-72), called at line 132
RateLimit ==
  /\ pc = "rate_limit"
  /\ IF BatchLimitReached(sent_count, config)
     THEN /\ now' = Sleep(now, BatchSleep(config))
          /\ sent_count' = 0
          /\ okSincePause' = 0
          /\ lastPause' = [kind |-> "batch", waited |-> now' - now]
          /\ stats' = Bump(Bump(stats, index, "checks"), index, "pauses")
     ELSE /\ IF ShortWait(now, last_send_time, config) > 0
             THEN /\ now' = Sleep(now, ShortWait(now, last_send_time, config))
                  /\ lastPause' = [kind |-> "short", waited |-> now' - now]
             ELSE /\ now' = now
                  /\ lastPause' = [kind |-> "none", waited |-> 0]
          /\ stats' = Bump(stats, index, "checks")
          /\ UNCHANGED <<sent_count, okSincePause>>
  /\ pc' = "send"
  /\ UNCHANGED <<config, recipients, last_send_time, index, attempt,
                 fileState, results, sessions, server, ctx, abortCause>>

\* variant: a successful send is not counted
SendSuccess_noCount ==
  /\ pc = "send"
  /\ \E e \in 0..MaxElapse :
       /\ now' = now + e
       /\ last_send_time' = now + e
  /\ results' = writerow(results, SuccessRow(recipients[index]))
  /\ okSincePause' = okSincePause + 1
  /\ stats' = Bump(Bump(stats, index, "sends"), index, "oks")
  /\ pc' = "for"
  /\ UNCHANGED <<config, recipients, sent_count, index, attempt, fileState,
                 sessions, server, ctx, abortCause, lastPause>>

\* lines 147-155: send_message returns; the row is written, the counters
\* are updated and the retry loop is left
SendSuccess ==
  /\ pc = "send"
  /\ \E e \in 0..MaxElapse :
       /\ now' = now + e
       /\ last_send_time' = now + e
  /\ results' = writerow(results, SuccessRow(recipients[index]))
  /\ sent_count' = sent_count + 1
  /\ okSincePause' = okSincePause + 1
  /\ stats' = Bump(Bump(stats, index, "sends"), index, "oks")
  /\ pc' = "for"
  /\ UNCHANGED <<config, recipients, index, attempt, fileState, sessions,
                 server, ctx, abortCause, lastPause>>

\* variant: a failed send is counted like a successful one
SendError_counts ==
  /\ pc = "send"
  /\ \E e \in 0..MaxElapse :
       /\ now' = now + e
       /\ last_send_time' = now + e
  /\ \E error_msg \in ErrorTexts :
       /\ results' =
            writerow(results, FailedRow(recipients[index], error_msg))
       /\ stats' = [Bump(Bump(stats, index, "sends"), index, "errors")
                      EXCEPT ![index].errText = error_msg]
  /\ sent_count' = sent_count + 1
  /\ pc' = "for"
  /\ UNCHANGED <<config, recipients, index, attempt, fileState, sessions,
                 server, ctx, abortCause, okSincePause, lastPause>>

\* variant: the error is recorded and then re-raised
SendError_raise ==
  /\ pc = "send"
  /\ \E e \in 0..MaxElapse : now' = now + e
  /\ \E error_msg \in ErrorTexts :
       /\ results' =
            writerow(results, FailedRow(recipients[index], error_msg))
       /\ stats' = [Bump(Bump(stats, index, "sends"), index, "errors")
                      EXCEPT ![index].errText = error_msg]
  /\ Fatal("error", sessions)
  /\ UNCHANGED <<config, recipients, sent_count, last_send_time, index,
                 attempt, server, ctx, okSincePause, lastPause>>

\* variant: the handler logs the error but writes no row
SendError_norow ==
  /\ pc = "send"
  /\ \E e \in 0..MaxElapse : now' = now + e
  /\ \E error_msg \in ErrorTexts :
       stats' = [Bump(Bump(stats, index, "sends"), index, "errors")
                   EXCEPT ![index].errText = error_msg]
  /\ pc' = "for"
  /\ UNCHANGED <<config, recipients, sent_count, last_send_time, index,
                 attempt, fileState, results, sessions, server, ctx,
                 abortCause, okSincePause, lastPause>>

\* lines 167-172: any other exception: a failed row, no retry
SendError ==
  /\ pc = "send"
  /\ \E e \in 0..MaxElapse : now' = now + e
  /\ \E error_msg \in ErrorTexts :
       /\ results' =
            writerow(results, FailedRow(recipients[index], error_msg))
       /\ stats' = [Bump(Bump(stats, index, "sends"), index, "errors")
                      EXCEPT ![index].errText = error_msg]
  /\ pc' = "for"
  /\ UNCHANGED <<config, recipients, sent_count, last_send_time, index,
                 attempt, fileState, sessions, server, ctx, abortCause,
                 okSincePause, lastPause>>

\* variant: the last disconnection is recorded as a failed row instead of
\* being re-raised
SendDisconnected_swallow ==
  /\ pc = "send"
  /\ now' = now
  /\ stats' = Bump(Bump(stats, index, "sends"), index, "drops")
  /\ sessions' = DropSession(sessions, server)
  /\ IF AttemptsRemain(attempt)
     THEN pc' = "reconnect" /\ UNCHANGED results
     ELSE /\ pc' = "for"
          /\ results' = writerow(results,
                 FailedRow(recipients[index], "Connection unexpectedly closed"))
  /\ UNCHANGED <<config, recipients, sent_count, last_send_time, index,
                 attempt, fileState, server, ctx, abortCause, okSincePause,
                 lastPause>>

\* lines 157-166: SMTPServerDisconnected: reconnect if attempts remain,
\* otherwise re-raise
SendDisconnected ==
  /\ pc = "send"
  /\ now' = now
  /\ stats' = Bump(Bump(stats, index, "sends"), index, "drops")
  /\ IF AttemptsRemain(attempt)
     THEN /\ sessions' = DropSession(sessions, server)
          /\ pc' = "reconnect"
          /\ UNCHANGED <<abortCause, fileState>>
     ELSE Fatal("exhausted", DropSession(sessions, server))
  /\ UNCHANGED <<config, recipients, sent_count, last_send_time, index,
                 attempt, results, server, ctx, okSincePause, lastPause>>

\* lines 160-163: sleep 5 seconds, then a new SMTP_SSL bound to server
Reconnect ==
  /\ pc = "reconnect"
  /\ now' = Sleep(now, ReconnectDelay)
  /\ \E ok \in BOOLEAN :
       IF ok
       THEN /\ sessions' = NewSession(sessions)
            /\ server' = Len(sessions) + 1
            /\ pc' = "relogin"
            /\ UNCHANGED <<abortCause, fileState>>
       ELSE /\ Fatal("reconnect", sessions)
            /\ UNCHANGED server
  /\ UNCHANGED <<config, recipients, sent_count, last_send_time, index,
                 attempt, results, ctx, stats, okSincePause, lastPause>>

\* variant: the retry skips the rate limiter
ReconnectLogin_noLimit ==
  /\ pc = "relogin"
  /\ \E ok \in BOOLEAN :
       IF ok
       THEN /\ attempt' = attempt + 1
            /\ stats' = Bump(stats, index, "reconnects")
            /\ pc' = "send"
            /\ UNCHANGED <<abortCause, fileState, sessions>>
       ELSE /\ Fatal("relogin", sessions)
            /\ UNCHANGED <<attempt, stats>>
  /\ UNCHANGED <<config, recipients, sent_count, last_send_time, now, index,
                 results, server, ctx, okSincePause, lastPause>>

\* variant: a retry does not use up an attempt
ReconnectLogin_sameAttempt ==
  /\ pc = "relogin"
  /\ \E ok \in BOOLEAN :
       IF ok
       THEN /\ stats' = Bump(stats, index, "reconnects")
            /\ pc' = "rate_limit"
            /\ UNCHANGED <<abortCause, fileState, sessions>>
       ELSE /\ Fatal("relogin", sessions)
            /\ UNCHANGED stats
  /\ UNCHANGED <<config, recipients, sent_count, last_send_time, now, index,
                 attempt, results, server, ctx, okSincePause, lastPause>>

\* line 164: login on the new session, then the next attempt (line 127)
ReconnectLogin ==
  /\ pc = "relogin"
  /\ \E ok \in BOOLEAN :
       IF ok
       THEN /\ attempt' = attempt + 1
            /\ stats' = Bump(stats, index, "reconnects")
            /\ pc' = "rate_limit"
            /\ UNCHANGED <<abortCause, fileState, sessions>>
       ELSE /\ Fatal("relogin", sessions)
            /\ UNCHANGED <<attempt, stats>>
  /\ UNCHANGED <<config, recipients, sent_count, last_send_time, now, index,
                 results, server, ctx, okSincePause, lastPause>>

Next ==
  \/ TestConnect
  \/ TestLogin
  \/ OpenResults
  \/ Connect
  \/ Login
  \/ NextRecipient
  \/ Complete
  \/ RateLimit
  \/ SendSuccess
  \/ SendError
  \/ SendDisconnected
  \/ Reconnect
  \/ ReconnectLogin

\* the program is one sequential thread: it always takes its next step,
\* and every sleep, connect, login and send returns
FairSpec == Init /\ [][Next]_vars /\ WF_vars(Next)

Spec == Init /\ [][Next]_vars

\* ------------------------------------------------------------ properties
\* the rows written so far belong, in order, to the first recipients
RowsInOrder ==
  /\ Len(Outcomes) <= index
  /\ \A i \in 1..Len(Outcomes) : Outcomes[i][1] = recipients[i]

\* C1: a run that ends without a fatal abort leaves exactly N outcome rows,
\* the i-th row carrying the email of the i-th recipient
C1_OneRowPerRecipient ==
  pc = "done" =>
    /\ Len(Outcomes) = N
    /\ \A i \in 1..N : Outcomes[i][1] = recipients[i]

\* a completed run that saw a success, a failure and a recovered
\* disconnection
C1_Witness ==
  /\ pc = "done"
  /\ N >= 3
  /\ \E i \in 1..N : stats[i].oks = 1 /\ stats[i].reconnects > 0
  /\ \E i \in 1..N : stats[i].errors = 1
  /\ \E i \in 1..N : stats[i].oks = 1 /\ stats[i].drops = 0

\* C2: a recipient whose attempt raised a non-disconnection error has
\* exactly one row, (email, failed, the error's text), the text is not
\* empty, no further attempt is made for it, and the loop goes on to the
\* next recipient
C2_FailedRow ==
  /\ [](\A i \in 1..N : stats[i].errors > 0 =>
          /\ stats[i].errors = 1
          /\ stats[i].errText # ""
          /\ Len(Outcomes) >= i
          /\ Len(Outcomes) <= index
          /\ Outcomes[i] = <<recipients[i], "failed", stats[i].errText>>
          /\ (index = i => pc \in {"for", "done"}))
  /\ [][\A i \in 1..N : stats[i].errors > 0 =>
          /\ stats'[i].sends = stats[i].sends
          /\ (index = i /\ i < N =>
                index' = i + 1 /\ pc' = "rate_limit"
                /\ abortCause' = "none")]_vars

\* the scenario of the spec: the first recipient failed, the second one
\* was sent to afterwards
C2_Witness ==
  /\ N >= 2
  /\ stats[1].errors = 1
  /\ stats[1].errText = "mailbox unavailable"
  /\ stats[2].oks = 1

\* C3: nobody gets a 4th send attempt; a recipient whose first k attempts
\* were disconnected and whose next attempt succeeded has one success
\* row, k <= 2, exactly k reconnects, and k + 1 attempts, all made while
\* it was the current recipient
C3_BoundedRetry ==
  /\ [](\A i \in 1..N :
          /\ stats[i].sends <= 3
          /\ (stats[i].sends > 0 => index >= i)
          /\ (stats[i].oks > 0 =>
                /\ stats[i].oks = 1
                /\ Len(Outcomes) >= i
                /\ Len(Outcomes) <= index
                /\ Outcomes[i] = <<recipients[i], "success", "">>
                /\ stats[i].drops \in 0..2
                /\ stats[i].reconnects = stats[i].drops
                /\ stats[i].sends = stats[i].drops + 1))
  /\ [][/\ pc \in {"reconnect", "relogin"} => index' = index
        /\ \A i \in 1..N : stats'[i].sends # stats[i].sends => i = index
       ]_vars

\* the scenario of the spec: two drops, then success on the third attempt
C3_Witness ==
  \E i \in 1..N :
    stats[i].drops = 2 /\ stats[i].oks = 1 /\ stats[i].reconnects = 2

\* C4: once a recipient has had 3 disconnected attempts the run is aborted:
\* it is not complete, no later recipient has been attempted and no row
\* exists for this or any later recipient
C4_ExhaustedAborts ==
  \A i \in 1..N : stats[i].drops >= 3 =>
    /\ pc = "aborted"
    /\ abortCause = "exhausted"
    /\ index = i
    /\ Len(Outcomes) = i - 1
    /\ \A j \in (i + 1)..N : stats[j].sends = 0 /\ stats[j].checks = 0

\* the first of several recipients exhausted its attempts
C4_Witness ==
  /\ N >= 2
  /\ stats[1].drops = 3
  /\ pc = "aborted"

\* C5: a failed pre-flight check aborts the run with no results file, no
\* main session and no send attempt
C5_PreflightAbort ==
  abortCause = "preflight" =>
    /\ pc = "aborted"
    /\ fileState = "none"
    /\ results = <<>>
    /\ server = 0
    /\ ctx = 0
    /\ Len(sessions) <= 1
    /\ index = 0
    /\ \A i \in 1..N : stats[i].sends = 0

\* authentication failed in the pre-flight check, with recipients waiting
C5_Witness ==
  /\ abortCause = "preflight"
  /\ Len(sessions) = 1
  /\ N >= 1

\* some send has succeeded, so last_send_time is the time of a send
SomeSent == \E i \in 1..N : stats[i].oks > 0

\* C6: a send attempt is never issued with emails_per_batch successful
\* sends since the last batch pause: the rate-limit check that finds the
\* batch full pauses for at least batch_delay and resets sent_count to 0
\* before the send, and a batch pause happens only then; with a batch of 2
\* and three recipients that succeed at once, the only batch pause is the
\* one before the third
C6_BatchPause ==
  /\ [](pc = "send" =>
          /\ okSincePause < config.emails_per_batch
          /\ (lastPause.kind = "batch" =>
                lastPause.waited >= config.batch_delay /\ sent_count = 0))
  /\ [][/\ (pc = "rate_limit" /\ okSincePause >= config.emails_per_batch) =>
             /\ now' - now >= config.batch_delay
             /\ sent_count' = 0
             /\ pc' = "send"
             /\ stats'[index].pauses = stats[index].pauses + 1
        /\ (\E i \in 1..N : stats'[i].pauses # stats[i].pauses) =>
             /\ pc = "rate_limit"
             /\ okSincePause = config.emails_per_batch
       ]_vars
  /\ []((/\ pc = "done"
          /\ N = 3
          /\ config.emails_per_batch = 2
          /\ \A i \in 1..N : stats[i].oks = 1 /\ stats[i].sends = 1) =>
          /\ stats[1].pauses = 0
          /\ stats[2].pauses = 0
          /\ stats[3].pauses = 1)

\* the scenario of the spec: a, b, c all succeed with a batch of 2
C6_Witness ==
  /\ pc = "done"
  /\ N = 3
  /\ config.emails_per_batch = 2
  /\ config.batch_delay >= 1
  /\ \A i \in 1..N : stats[i].oks = 1 /\ stats[i].sends = 1
  /\ stats[3].pauses = 1

\* C7, as claimed: every send is issued at least delay_between_emails
\* after the previous send
C7_Original ==
  (pc = "send" /\ SomeSent) =>
    now - last_send_time >= config.delay_between_emails

\* C7, amended: a rate-limit check that finds the batch not full and less
\* than delay_between_emails elapsed since the previous successful send
\* waits at least the remainder, so a send not preceded by a batch pause is
\* issued at least delay_between_emails after the previous successful
\* send; a check that finds the batch full waits batch_delay instead
C7_Amended ==
  /\ []((pc = "send" /\ SomeSent /\ lastPause.kind # "batch") =>
          now - last_send_time >= config.delay_between_emails)
  /\ []((pc = "send" /\ lastPause.kind = "batch") =>
          lastPause.waited >= config.batch_delay)
  /\ [][(/\ pc = "rate_limit"
          /\ sent_count < config.emails_per_batch
          /\ now - last_send_time < config.delay_between_emails) =>
          now' - now >= config.delay_between_emails - (now - last_send_time)
       ]_vars

\* a send about to be issued right after a short wait that followed a
\* successful send
C7_Witness ==
  /\ pc = "send"
  /\ SomeSent
  /\ lastPause.kind = "short"
  /\ lastPause.waited >= config.delay_between_emails
  /\ config.delay_between_emails > 0

\* C8, as claimed: when the run has ended, every recipient that was sent
\* to at least once has its row, in processing order
C8_Original ==
  pc \in {"done", "aborted"} =>
    /\ RowsInOrder
    /\ \A i \in 1..N : stats[i].sends > 0 => Len(Outcomes) >= i

\* C9: rows are only ever appended; when the run aborts while recipient k
\* is processed, the file is closed and holds the rows of recipients
\* 1..k-1 as they were written
C9_RowsSurviveAbort ==
  /\ [][/\ Len(results') >= Len(results)
        /\ SubSeq(results', 1, Len(results)) = results]_vars
  /\ []((pc = "aborted" /\ index >= 1) =>
          /\ fileState = "closed"
          /\ Head(results) = HeaderRow
          /\ Len(Outcomes) = index - 1
          /\ \A i \in 1..(index - 1) :
               /\ stats[i].oks = 1 =>
                    Outcomes[i] = <<recipients[i], "success", "">>
               /\ stats[i].oks = 0 =>
                    Outcomes[i] = <<recipients[i], "failed", stats[i].errText>>)

\* the run aborted on the third recipient, after a success and a failure
C9_Witness ==
  /\ pc = "aborted"
  /\ index = 3
  /\ Len(Outcomes) = 2
  /\ \E i \in 1..2 : stats[i].oks = 1
  /\ \E i \in 1..2 : stats[i].errors = 1

\* C10: the run aborts only in a step that is the third disconnection of
\* a recipient or a failed connect or login (pre-flight, main, reconnect);
\* a non-disconnection error never aborts; a run that has not aborted can
\* always go on, and it completes only after the last recipient, with a
\* row for every recipient
C10_AbortOnlyOn ==
  /\ [][pc' = "aborted" =>
          \/ pc = "send" /\ stats'[index].drops = 3
          \/ pc \in {"start", "test_login", "connect", "login",
                      "reconnect", "relogin"}]_vars
  /\ [][(\E i \in 1..N : stats'[i].errors # stats[i].errors) =>
          pc' = "for" /\ abortCause' = "none"]_vars
  /\ [](pc \notin {"done", "aborted"} => ENABLED Next)
  /\ [](pc = "done" =>
          /\ index = N
          /\ abortCause = "none"
          /\ \A i \in 1..N : stats[i].oks + stats[i].errors = 1)

\* a run in which every recipient failed with a non-disconnection error
\* completed normally
C10_Witness ==
  /\ pc = "done"
  /\ N >= 2
  /\ \A i \in 1..N : stats[i].errors = 1

\* sum of one field of stats over all recipients
RECURSIVE SumUpTo(_, _)
SumUpTo(field, n) ==
  IF n = 0 THEN 0 ELSE stats[n][field] + SumUpTo(field, n - 1)
Total(field) == SumUpTo(field, N)

\* the sessions that are connected and not closed
Live == { s \in 1..Len(sessions) : sessions[s] = "live" }

\* C11, as claimed: when send_newsletters has returned or aborted, no
\* session it opened is still open
C11_Original ==
  pc \in {"done", "aborted"} => Live = {}

\* C12, as claimed, for a run that entered the loop: the sessions opened
\* after the pre-flight check are 1 plus the disconnected attempts that
\* were followed by a retry
C12_Original ==
  (pc \in {"done", "aborted"} /\ index >= 1) =>
    Len(sessions) - 1 = 1 + Total("reconnects")

\* C12, amended: the loop keeps its session from one recipient to the
\* next; a session is opened in the loop only right after a disconnected
\* attempt with attempts remaining, on a dead session; a recipient that
\* succeeds at once has no reconnect; every send uses the newest session;
\* the sessions opened after the pre-flight check are 1 plus the
\* disconnected attempts followed by a retry, plus 1 if the run aborted
\* because the login on a reconnected session failed
C12_Amended ==
  /\ []((pc \in {"done", "aborted"} /\ index >= 1) =>
          Len(sessions) - 1 =
            1 + Total("reconnects")
              + (IF abortCause = "relogin" THEN 1 ELSE 0))
  /\ [](\A i \in 1..N :
          (stats[i].oks = 1 /\ stats[i].sends = 1) =>
            stats[i].reconnects = 0 /\ stats[i].drops = 0)
  /\ [](pc = "send" => server = Len(sessions) /\ sessions[server] = "live")
  /\ [][/\ (Len(sessions') # Len(sessions) /\ index >= 1) =>
             /\ pc = "reconnect"
             /\ Len(sessions') = Len(sessions) + 1
             /\ sessions[server] = "dropped"
             /\ stats[index].drops = stats[index].reconnects + 1
             /\ stats[index].drops < 3
             /\ server' = Len(sessions')
        /\ (server' # server /\ index >= 1) => pc = "reconnect"
        /\ pc' = "reconnect" =>
             pc = "send" /\ stats'[index].drops = stats[index].drops + 1
       ]_vars

\* a run with a first-attempt success, a recovered disconnection and an
\* abort at the login of a second reconnect
C12_Witness ==
  /\ pc = "aborted"
  /\ abortCause = "relogin"
  /\ index >= 2
  /\ stats[1].oks = 1 /\ stats[1].sends = 1
  /\ Total("reconnects") >= 1

\* C13: at most one session is live at any time; the main session and a
\* reconnected session are opened only when no session is live
C13_OneLiveSession ==
  /\ [](Cardinality(Live) <= 1)
  /\ [][Len(sessions') > Len(sessions) => Live = {}]_vars
  /\ [][pc = "reconnect" => sessions[server] # "live"]_vars

\* the main session was dropped and replaced by a reconnect
C13_Witness ==
  /\ Len(sessions) >= 3
  /\ sessions[1] = "closed"
  /\ sessions[2] = "dropped"
  /\ sessions[3] = "live"
  /\ pc = "send"

\* C14: every send attempt is preceded by its own _rate_limit call: per
\* recipient the calls equal the attempts (plus the one whose send is
\* pending), a send is reached only from a rate-limit check, and an
\* attempt is made only from there
C14_CheckBeforeSend ==
  /\ [](\A i \in 1..N :
          stats[i].checks =
            stats[i].sends + (IF pc = "send" /\ index = i THEN 1 ELSE 0))
  /\ [](pc \in {"done", "aborted"} => Total("checks") = Total("sends"))
  /\ [][/\ (pc' = "send" /\ pc # "send") =>
             /\ pc = "rate_limit"
             /\ stats'[index].checks = stats[index].checks + 1
        /\ (\E i \in 1..N : stats'[i].sends # stats[i].sends) =>
             pc = "send" /\ pc' # "send"
       ]_vars

\* a retry after a reconnect is about to be sent, after its own check
C14_Witness ==
  /\ pc = "send"
  /\ attempt = 2
  /\ stats[index].checks = 3
  /\ stats[index].sends = 2

\* an upper bound of the steps the run can still take
Rank ==
  CASE pc = "start" -> 13 * N + 7
    [] pc = "test_login" -> 13 * N + 6
    [] pc = "open_results" -> 13 * N + 5
    [] pc = "connect" -> 13 * N + 4
    [] pc = "login" -> 13 * N + 3
    [] pc = "for" -> 13 * (N - index) + 1
    [] pc = "rate_limit" -> 13 * (N - index) + 1 + 4 * (2 - attempt) + 4
    [] pc = "send" -> 13 * (N - index) + 1 + 4 * (2 - attempt) + 3
    [] pc = "reconnect" -> 13 * (N - index) + 1 + 4 * (2 - attempt) + 2
    [] pc = "relogin" -> 13 * (N - index) + 1 + 4 * (2 - attempt) + 1
    [] OTHER -> 0

\* C15: the run reaches completion or a fatal abort: every step lowers a
\* bound on the steps left, a run that has not ended can take a step, and
\* so under the program's scheduling it ends; it makes at most 3 * N send
\* attempts and 2 * N reconnects, at most 3 and 2 for any one recipient
C15_Terminates ==
  /\ [](/\ Rank >= 0
        /\ Total("sends") <= 3 * N
        /\ Total("reconnects") <= 2 * N
        /\ \A i \in 1..N : stats[i].sends <= 3 /\ stats[i].reconnects <= 2
        /\ (pc \notin {"done", "aborted"} => ENABLED Next))
  /\ [][Rank' < Rank]_vars
  /\ <>(pc \in {"done", "aborted"})

\* a completed run in which every recipient needed all its attempts
C15_Witness ==
  /\ pc = "done"
  /\ N >= 2
  /\ Total("sends") = 3 * N
  /\ Total("reconnects") = 2 * N

\* C16: sent_count stays between 0 and emails_per_batch
C16_SentCountBounded ==
  /\ 0 <= sent_count
  /\ sent_count <= config.emails_per_batch

\* a full batch of 2, reached across a failure and a recovered
\* disconnection
C16_Witness ==
  /\ config.emails_per_batch = 2
  /\ sent_count = 2
  /\ Total("errors") >= 1
  /\ Total("reconnects") >= 1

\* C17: an attempt that ends in an error or a disconnection leaves
\* sent_count and last_send_time as they were; a successful one adds
\* exactly 1 to sent_count and sets last_send_time to the current time;
\* apart from the rate-limit check itself nothing else changes them
C17_OnlySuccessCounts ==
  [][/\ (\E i \in 1..N : \/ stats'[i].errors # stats[i].errors
                          \/ stats'[i].drops # stats[i].drops) =>
          /\ sent_count' = sent_count
          /\ last_send_time' = last_send_time
     /\ (\E i \in 1..N : stats'[i].oks # stats[i].oks) =>
          /\ sent_count' = sent_count + 1
          /\ last_send_time' = now'
     /\ (sent_count' # sent_count \/ last_send_time' # last_send_time) =>
          \/ pc = "rate_limit"
          \/ pc = "send" /\ (\E i \in 1..N : stats'[i].oks = stats[i].oks + 1)
    ]_vars

\* after a success, a later recipient failed and another was disconnected
\* while the counters still show the one success
C17_Witness ==
  /\ sent_count = 1
  /\ stats[1].oks = 1
  /\ Total("oks") = 1
  /\ Total("errors") >= 1
  /\ Total("drops") >= 1
  /\ last_send_time < now

\* the run is over and every recipient succeeded on its first attempt
AllFirstTry ==
  /\ pc = "done"
  /\ N >= 1
  /\ \A i \in 1..N : stats[i].oks = 1 /\ stats[i].sends = 1

\* C18: when all N >= 1 recipients succeed on their first attempt with a
\* batch size B, there are (N - 1) \div B batch pauses, one right before
\* the send to each recipient k * B + 1 with k >= 1 and none elsewhere
C18_PauseCount ==
  AllFirstTry =>
    /\ Total("pauses") = (N - 1) \div config.emails_per_batch
    /\ \A i \in 1..N :
         stats[i].pauses =
           IF i > 1 /\ (i - 1) % config.emails_per_batch = 0 THEN 1 ELSE 0
    /\ stats[1].pauses = 0
    /\ sent_count >= 1

\* three recipients with a batch size of 1: pauses before the second and
\* the third
C18_Witness ==
  /\ AllFirstTry
  /\ N = 3
  /\ config.emails_per_batch = 1
  /\ Total("pauses") = 2

TypeOK ==
  /\ pc \in {"start", "test_login", "open_results", "connect", "login",
             "for", "rate_limit", "send", "reconnect", "relogin", "done",
             "aborted"}
  /\ index \in 0..N
  /\ attempt \in 0..(retries - 1)
  /\ sent_count \in Nat
  /\ fileState \in {"none", "open", "closed"}
====
